---- MODULE Spec2Model ----
(***************************************************************************)
(* A model of csv_shuffle.py: the column index resolver                    *)
(* (_column_to_index, _calculate_output_indexes), the configuration        *)
(* validator (_validate_config, reached through _read_config) and the row  *)
(* transform driver (main, run from the script's __main__ block).          *)
(*                                                                         *)
(* Representation.  A Python str is a sequence of TLA+ strings: one        *)
(* element per character wherever the code looks at characters (letter     *)
(* codes, raw option values, extensions, integers), and one element per    *)
(* word in the fixed parts of messages.  None is the empty tuple and a     *)
(* value that may be None is wrapped: Some(v) = <<v>>.  A dict is a        *)
(* function whose DOMAIN is its key set.  An exception is a record of its  *)
(* type and its message.                                                   *)
(***************************************************************************)
EXTENDS Integers, Sequences, FiniteSets, TLC

VARIABLES
  pc,             \* position of the script / of the function under study
  fs,             \* the files the run finds: readability facts and input rows
  config_raw,     \* the ConfigParser contents: section -> option -> value
  config_read,    \* __main__: config_read, err_str, config
  err_str,
  config,         \* the params dict handed to main / to the resolver
  data_rows_in,   \* main: rows loaded from the input file
  in_headers,     \* resolver argument (Some(row) or None)
  valid_indexes,  \* resolver result: success flag
  err_indexes,    \* resolver result: cof
  output_indexes, \* resolver result: out_indexes
  out_fh,         \* output file handle: "unopened", "open", "closed"
  out_file,       \* rows written to the output file so far
  exc,            \* the exception that ended the run, NoExc if none
  column,         \* _column_to_index argument
  index           \* _column_to_index result (Some(n) or None)

vars == <<pc, fs, config_raw, config_read, err_str, config, data_rows_in,
          in_headers, valid_indexes, err_indexes, output_indexes, out_fh,
          out_file, exc, column, index>>

----------------------------------------------------------------------------
(* Python values *)

None == <<>>
Some(v) == <<v>>
\* an exception: its type, its message and the function that raised it
NoExc == [type |-> "none", msg |-> <<>>, where |-> "none"]
Raise(type, msg, where) == [type |-> type, msg |-> msg, where |-> where]

Range(s) == {s[i] : i \in 1..Len(s)}

\* the sequences over S of length at most n
SeqUpTo(S, n) == UNION {[1..k -> S] : k \in 0..n}

\* s contains sub as a contiguous run (Python: sub in s)
Contains(s, sub) ==
  \E i \in 0..(Len(s) - Len(sub)) : SubSeq(s, i + 1, i + Len(sub)) = sub

\* string.ascii_uppercase, string.ascii_lowercase, string.ascii_letters
ascii_uppercase ==
  <<"A","B","C","D","E","F","G","H","I","J","K","L","M",
    "N","O","P","Q","R","S","T","U","V","W","X","Y","Z">>
ascii_lowercase ==
  <<"a","b","c","d","e","f","g","h","i","j","k","l","m",
    "n","o","p","q","r","s","t","u","v","w","x","y","z">>
ascii_letters == ascii_lowercase \o ascii_uppercase

IndexOf(seq, c) == CHOOSE i \in 1..Len(seq) : seq[i] = c

\* str.upper() / str.lower() of one character
upper(c) ==
  IF c \in Range(ascii_lowercase)
    THEN ascii_uppercase[IndexOf(ascii_lowercase, c)] ELSE c
lower(c) ==
  IF c \in Range(ascii_uppercase)
    THEN ascii_lowercase[IndexOf(ascii_uppercase, c)] ELSE c
str_lower(s) == [i \in 1..Len(s) |-> lower(s[i])]

\* ord() of an ASCII letter
ord(c) ==
  IF c \in Range(ascii_uppercase)
    THEN 64 + IndexOf(ascii_uppercase, c)
    ELSE 96 + IndexOf(ascii_lowercase, c)

----------------------------------------------------------------------------
(* _column_to_index *)

\* the same step without the case fold (mutant)
ColumnStepNoUpper(num, col_letter) ==
  IF col_letter \in Range(ascii_letters)
    THEN (num * 26) + (ord(col_letter) - ord("A")) + 1
    ELSE num

\* one iteration of the for loop over the characters of column
ColumnStep(num, col_letter) ==
  IF col_letter \in Range(ascii_letters)
    THEN (num * 26) + (ord(upper(col_letter)) - ord("A")) + 1
    ELSE num

RECURSIVE ColumnLoop(_, _, _)
ColumnLoop(column_, k, num) ==
  IF k > Len(column_) THEN num
  ELSE ColumnLoop(column_, k + 1, ColumnStep(num, column_[k]))

_column_to_index(column_) == ColumnLoop(column_, 1, 0) - 1

----------------------------------------------------------------------------
(* _calculate_output_indexes *)

\* repr() of a str and of a list of str, as they appear inside an f-string
py_repr_str(s) == <<"'">> \o s \o <<"'">>

RECURSIVE py_repr_items(_)
py_repr_items(list) ==
  IF Len(list) = 0 THEN <<>>
  ELSE IF Len(list) = 1 THEN py_repr_str(list[1])
  ELSE py_repr_str(list[1]) \o <<", ">> \o py_repr_items(Tail(list))

py_repr_list(list) == <<"[">> \o py_repr_items(list) \o <<"]">>

\* the same loop without the break: the last match is kept (mutant)
LastMatch(headers, out_header) ==
  IF \E i \in 1..Len(headers) : headers[i] = out_header
    THEN Some((CHOOSE i \in 1..Len(headers) :
                 /\ headers[i] = out_header
                 /\ \A j \in (i + 1)..Len(headers) : headers[j] # out_header) - 1)
    ELSE None

\* lines 90-94: the inner for/break loop; the index of the first in_header
\* equal to out_header, None when the loop ends without a break
FirstMatch(headers, out_header) ==
  IF \E i \in 1..Len(headers) : headers[i] = out_header
    THEN Some((CHOOSE i \in 1..Len(headers) :
                 /\ headers[i] = out_header
                 /\ \A j \in 1..(i - 1) : headers[j] # out_header) - 1)
    ELSE None

\* lines 89-98: the outer loop, carrying out_indexes and unmatched_headers
RECURSIVE HeaderLoop(_, _, _, _, _)
HeaderLoop(headers, wanted, k, out, unmatched) ==
  IF k > Len(wanted) THEN [out_indexes |-> out, unmatched_headers |-> unmatched]
  ELSE LET out_index == FirstMatch(headers, wanted[k])
       IN  IF out_index # None
             THEN HeaderLoop(headers, wanted, k + 1,
                             Append(out, out_index[1]), unmatched)
             ELSE HeaderLoop(headers, wanted, k + 1,
                             out, Append(unmatched, wanted[k]))

Populated(params, key) == key \in DOMAIN params /\ Len(params[key]) > 0

\* lines 86-107: the column_headers branch
ResolveHeaders(in_hdrs, params) ==
  IF in_hdrs # None
    THEN LET r == HeaderLoop(in_hdrs[1], params["column_headers"], 1, <<>>, <<>>)
         IN  IF Len(r.unmatched_headers) = 0
               THEN [success |-> TRUE, cof |-> None, out_indexes |-> r.out_indexes]
               ELSE [success |-> FALSE,
                     cof |-> Some(<<"some headers ">>
                                  \o py_repr_list(r.unmatched_headers)
                                  \o <<" matched nothing in original headers ">>
                                  \o py_repr_list(in_hdrs[1])),
                     out_indexes |-> r.out_indexes]
    ELSE [success |-> FALSE,
          cof |-> Some(<<"in_headers must be provided with out_headers">>),
          out_indexes |-> <<>>]

\* lines 82-85: the column_letters branch
ResolveLetters(params) ==
  [success |-> TRUE, cof |-> None,
   out_indexes |-> [k \in 1..Len(params["column_letters"]) |->
                      _column_to_index(params["column_letters"][k])]]

\* the if/elif chain with the letters tested before the indexes (mutant)
calculate_output_indexes_letters_first(in_hdrs, params) ==
  IF Populated(params, "column_letters") THEN ResolveLetters(params)
  ELSE IF Populated(params, "column_indexes")
    THEN [success |-> TRUE, cof |-> None, out_indexes |-> params["column_indexes"]]
  ELSE IF Populated(params, "column_headers") THEN ResolveHeaders(in_hdrs, params)
  ELSE [success |-> FALSE, cof |-> Some(<<"no input indexes provided">>),
        out_indexes |-> <<>>]

_calculate_output_indexes(in_hdrs, params) ==
  IF Populated(params, "column_indexes")
    THEN [success |-> TRUE, cof |-> None, out_indexes |-> params["column_indexes"]]
  ELSE IF Populated(params, "column_letters") THEN ResolveLetters(params)
  ELSE IF Populated(params, "column_headers") THEN ResolveHeaders(in_hdrs, params)
  ELSE [success |-> FALSE, cof |-> Some(<<"no input indexes provided">>),
        out_indexes |-> <<>>]

----------------------------------------------------------------------------
(* str methods and int() used by _validate_config *)

Whitespace == {" ", "\t", "\n", "\r"}
Digits == <<"0", "1", "2", "3", "4", "5", "6", "7", "8", "9">>

\* str.strip(): leading and trailing whitespace removed
RECURSIVE lstrip(_)
lstrip(s) ==
  IF Len(s) > 0 /\ s[1] \in Whitespace THEN lstrip(Tail(s)) ELSE s
RECURSIVE rstrip(_)
rstrip(s) ==
  IF Len(s) > 0 /\ s[Len(s)] \in Whitespace
    THEN rstrip(SubSeq(s, 1, Len(s) - 1)) ELSE s
strip(s) == rstrip(lstrip(s))

\* str.splitlines() for values whose only line boundary is "\n" (ConfigParser
\* joins the lines of a value with "\n"): "" gives [], a final "\n" adds no
\* empty last line
RECURSIVE splitlines(_)
splitlines(s) ==
  IF Len(s) = 0 THEN <<>>
  ELSE IF \E i \in 1..Len(s) : s[i] = "\n"
    THEN LET i == CHOOSE i \in 1..Len(s) :
                    s[i] = "\n" /\ \A j \in 1..(i - 1) : s[j] # "\n"
         IN  <<SubSeq(s, 1, i - 1)>> \o splitlines(SubSeq(s, i + 1, Len(s)))
    ELSE <<s>>

\* int(s) of a stripped string: an optional sign and decimal digits;
\* anything else raises ValueError
IsDigits(s) == Len(s) > 0 /\ \A i \in 1..Len(s) : s[i] \in Range(Digits)
IsIntLiteral(s) ==
  IF Len(s) > 0 /\ s[1] \in {"-", "+"} THEN IsDigits(Tail(s)) ELSE IsDigits(s)
RECURSIVE DigitsValue(_, _)
DigitsValue(s, acc) ==
  IF Len(s) = 0 THEN acc
  ELSE DigitsValue(Tail(s), acc * 10 + (IndexOf(Digits, s[1]) - 1))
int(s) ==
  IF s[1] = "-" THEN 0 - DigitsValue(Tail(s), 0)
  ELSE IF s[1] = "+" THEN DigitsValue(Tail(s), 0)
  ELSE DigitsValue(s, 0)

\* [col.strip() for col in value.splitlines()]
StrippedLines(value) ==
  LET lines == splitlines(value) IN [k \in 1..Len(lines) |-> strip(lines[k])]

----------------------------------------------------------------------------
(* _validate_config *)

DEFAULT_CHARACTER_ENCODING == <<"utf-8">>
DEFAULT_ENCODING_ERRORS == <<"backslashreplace">>

has_section(raw, section) == section \in DOMAIN raw
has_option(raw, section, option) ==
  has_section(raw, section) /\ option \in DOMAIN raw[section]

\* os.path.join(os.path.abspath(path), f'{file_name}.{extension}')
FilePath(path, file_name, extension) ==
  <<"abspath(">> \o path \o <<")", "/">> \o file_name \o <<".">> \o extension

\* ", ".join(invalid)
RECURSIVE JoinComma(_)
JoinComma(list) ==
  IF Len(list) = 0 THEN <<>>
  ELSE IF Len(list) = 1 THEN list[1]
  ELSE list[1] \o <<", ">> \o JoinComma(Tail(list))

\* lines 290-295: the problem appended when no sheet name is given
SheetNameInvalid(raw, input_file_extension) ==
  IF has_option(raw, "data_files", "input_sheet_name") THEN <<>>
  ELSE IF input_file_extension = Some(<<"x", "l", "s", "x">>)
    THEN << <<"data_files.", "input_sheet_name", " must be defined when ",
              "data_files.", "input_file_extension", " is xlsx">> >>
  ELSE <<>>

\* lines 253-339: the data_files section; the problems found, in the order
\* they are appended, and the entries put in config_map
ValidateDataFiles(raw, files) ==
  LET has(o) == has_option(raw, "data_files", o)
      get(o) == raw["data_files"][o]
      opt(o) == IF has(o) THEN Some(get(o)) ELSE None
      undefined(o) == << <<"data_files.", o, " not defined">> >>
      input_path == opt("input_path")
      input_file_name == opt("input_file_name")
      input_file_extension == opt("input_file_extension")
      output_path == opt("output_path")
      output_file_name == opt("output_file_name")
      output_file_extension == opt("output_file_extension")
      have_input == input_path # None /\ input_file_name # None
                    /\ input_file_extension # None
      have_output == output_path # None /\ output_file_name # None
                     /\ output_file_extension # None
      input_file_path ==
        FilePath(input_path[1], input_file_name[1], input_file_extension[1])
      invalid ==
        (IF input_path # None
           THEN IF ~files.input_dir_ok
                  THEN << <<"data_files.", "input_path",
                            " is not a readable directory">> >>
                  ELSE <<>>
           ELSE undefined("input_path"))
        \o (IF input_file_name # None THEN <<>>
            ELSE undefined("input_file_name"))
        \o (IF input_file_extension # None THEN <<>>
            ELSE undefined("input_file_extension"))
        \o (IF have_input /\ ~files.input_file_ok
              THEN << <<"input_file_path (">> \o input_file_path
                      \o <<" is not a readable file">> >>
              ELSE <<>>)
        \o SheetNameInvalid(raw, input_file_extension)
        \o (IF output_path # None
              THEN IF ~files.output_dir_ok
                     THEN << <<"data_files.", "output_path",
                               " is not a writeable directory">> >>
                     ELSE <<>>
              ELSE undefined("output_path"))
        \o (IF output_file_name # None THEN <<>>
            ELSE undefined("output_file_name"))
        \o (IF output_file_extension # None THEN <<>>
            ELSE undefined("output_file_extension"))
      config_map ==
        [k \in {kk \in {"input_data_type", "input_file_path",
                        "input_sheet_name", "output_file_path",
                        "character_encoding", "character_encoding_errors"} :
                  \/ kk = "input_data_type" /\ input_file_extension # None
                  \/ kk = "input_file_path" /\ have_input /\ files.input_file_ok
                  \/ kk = "input_sheet_name" /\ has("input_sheet_name")
                  \/ kk = "output_file_path" /\ have_output
                  \/ kk \in {"character_encoding", "character_encoding_errors"}} |->
           CASE k = "input_data_type" -> input_file_extension[1]
             [] k = "input_file_path" -> input_file_path
             [] k = "input_sheet_name" -> get("input_sheet_name")
             [] k = "output_file_path" ->
                  FilePath(output_path[1], output_file_name[1],
                           output_file_extension[1])
             [] k = "character_encoding" ->
                  IF has("character_encoding") THEN get("character_encoding")
                  ELSE DEFAULT_CHARACTER_ENCODING
             [] k = "character_encoding_errors" ->
                  IF has("character_encoding_errors")
                    THEN get("character_encoding_errors")
                    ELSE DEFAULT_ENCODING_ERRORS]
  IN  [invalid |-> invalid, config_map |-> config_map]

\* lines 358-361: the first line of column_indexes that int() rejects;
\* None when every line converts
BadIndexLine(raw) ==
  IF has_option(raw, "data_columns", "column_indexes")
    THEN LET cols == StrippedLines(raw["data_columns"]["column_indexes"])
         IN  IF \E k \in 1..Len(cols) : ~IsIntLiteral(cols[k])
               THEN Some(cols[CHOOSE k \in 1..Len(cols) :
                                /\ ~IsIntLiteral(cols[k])
                                /\ \A j \in 1..(k - 1) : IsIntLiteral(cols[j])])
               ELSE None
    ELSE None

\* lines 344-366: columns_defined, set by each option that is present
ColumnsDefined(raw) ==
  \E o \in {"column_headers", "column_letters", "column_indexes"} :
    has_option(raw, "data_columns", o)

\* lines 346-366: the data_columns section, for values int() accepts
ValidateDataColumns(raw) ==
  LET has(o) == has_option(raw, "data_columns", o)
      get(o) == raw["data_columns"][o]
      indexes == StrippedLines(get("column_indexes"))
  IN  [invalid |->
         IF ~ColumnsDefined(raw)
           THEN << <<"one of column headers, letters, or indexes must",
                     "be defined">> >>
           ELSE <<>>,
       config_map |->
         [k \in {kk \in {"column_headers", "column_letters", "column_indexes"} :
                   has(kk)} |->
            IF k = "column_indexes"
              THEN [n \in 1..Len(indexes) |-> int(indexes[n])]
              ELSE StrippedLines(get(k))]]

\* _validate_config: what it returns, or the exception it raises
_validate_config(raw, files) ==
  LET files_part ==
        IF ~has_section(raw, "data_files")
          THEN [invalid |-> << <<"data_files", " section not defined">> >>,
                config_map |-> <<>>]
          ELSE ValidateDataFiles(raw, files)
      columns_part ==
        IF ~has_section(raw, "data_columns")
          THEN [invalid |-> << <<"data_columns", " section not defined">> >>,
                config_map |-> <<>>]
          ELSE ValidateDataColumns(raw)
      invalid == files_part.invalid \o columns_part.invalid
  IN  IF has_section(raw, "data_columns") /\ BadIndexLine(raw) # None
        THEN [raised |-> Raise("ValueError",
                               <<"invalid literal for int() with base 10: ">>
                               \o py_repr_str(BadIndexLine(raw)[1]),
                               "_validate_config"),
              valid |-> FALSE, invalid_str |-> None, config_map |-> <<>>]
        ELSE [raised |-> NoExc,
              valid |-> Len(invalid) = 0,
              invalid_str |->
                IF Len(invalid) > 0
                  THEN Some(<<"one or more invalid configuration parameters ",
                              "identified: ">> \o JoinComma(invalid))
                  ELSE None,
              config_map |-> files_part.config_map @@ columns_part.config_map]

\* _read_config, called with the path of csv_shuffle.ini beside the script
_read_config(raw, files) ==
  IF ~files.config_file_ok
    THEN [raised |-> NoExc, valid |-> FALSE,
          invalid_str |-> Some(<<"configuration file (", "csv_shuffle.ini",
                                 ") must be a readable file">>),
          config_map |-> <<>>]
    ELSE _validate_config(raw, files)

----------------------------------------------------------------------------
(* main *)

\* row[index] of a Python list: counted from the end when index is
\* negative; None stands for IndexError
PySubscript(row, i) ==
  IF 0 <= i /\ i < Len(row) THEN Some(row[i + 1])
  ELSE IF 0 - Len(row) <= i /\ i < 0 THEN Some(row[Len(row) + i + 1])
  ELSE None

\* data_row_out filled from the last index to the first (mutant)
ProjectRowReversed(row, indexes) ==
  IF \E k \in 1..Len(indexes) : PySubscript(row, indexes[k]) = None
    THEN None
    ELSE Some([k \in 1..Len(indexes) |->
                 PySubscript(row, indexes[Len(indexes) + 1 - k])[1]])

\* lines 418-420: data_row_out for one row; None when a subscript raises
ProjectRow(row, indexes) ==
  IF \E k \in 1..Len(indexes) : PySubscript(row, indexes[k]) = None
    THEN None
    ELSE Some([k \in 1..Len(indexes) |-> PySubscript(row, indexes[k])[1]])

\* _read_csv_data: the rows of the input file.  The file passed the
\* readability test of line 283 and is taken to stay readable.
_read_csv_data(params, files) == [raised |-> NoExc, rows |-> files.rows]

\* _read_xlsx_data: the rows of the named sheet; the workbook opens and its
\* cells are taken to be strings
_read_xlsx_data(params, files) ==
  IF "input_sheet_name" \notin DOMAIN params
    THEN [raised |-> Raise("KeyError", py_repr_str(<<"input_sheet_name">>),
                           "_read_xlsx_data"),
          rows |-> <<>>]
  ELSE IF params["input_sheet_name"] \notin files.sheetnames
    THEN [raised |-> Raise("RuntimeError",
                           <<"no sheet named (">> \o params["input_sheet_name"]
                           \o <<") is contained in input data file (">>
                           \o params["input_file_path"] \o <<")">>,
                           "_read_xlsx_data"),
          rows |-> <<>>]
  ELSE [raised |-> NoExc, rows |-> files.rows]

\* lines 390-400: the rows loaded, or the exception that ends the run
LoadRows(params, files) ==
  LET type == str_lower(params["input_data_type"])
      read == IF type = <<"c", "s", "v">> THEN _read_csv_data(params, files)
              ELSE IF type = <<"x", "l", "s", "x">>
                THEN _read_xlsx_data(params, files)
              ELSE [raised |-> Raise("RuntimeError",
                                     <<"Unknown input data type (">>
                                     \o params["input_data_type"]
                                     \o <<") provided, only recognized types ",
                                          "are (csv, xlsx)">>,
                                     "main"),
                    rows |-> <<>>]
  IN  IF read.raised # NoExc THEN read
      ELSE IF Len(read.rows) = 0
        THEN [raised |-> Raise("RuntimeError",
                               <<"Failed to read any data rows from input ",
                                 "data file (">> \o params["input_file_path"],
                               "main"),
              rows |-> read.rows]
      ELSE read

----------------------------------------------------------------------------
(* States of the variables a specification does not use *)

NoFiles == [config_file_ok |-> FALSE, input_dir_ok |-> FALSE,
            input_file_ok |-> FALSE, output_dir_ok |-> FALSE,
            sheetnames |-> {}, rows |-> <<>>]

FilesIdle == fs = NoFiles /\ config_raw = <<>>
ConfigIdle == config_read = FALSE /\ err_str = None /\ config = <<>>
ResolveIdle ==
  /\ in_headers = None /\ valid_indexes = FALSE
  /\ err_indexes = None /\ output_indexes = <<>>
DriverIdle ==
  /\ data_rows_in = <<>> /\ out_fh = "unopened" /\ out_file = <<>>
  /\ exc = NoExc
LettersIdle == column = <<>> /\ index = None

----------------------------------------------------------------------------
(* The letter conversion on its own: every code over CodeChars of at most  *)
(* MaxCode characters is converted once.                                    *)

MaxCode == 3
CodeChars == {"A", "B", "Z", "a", "z", "1", " "}

InitLetters ==
  /\ pc = "column_call"
  /\ column \in SeqUpTo(CodeChars, MaxCode)
  /\ index = None
  /\ FilesIdle /\ ConfigIdle /\ ResolveIdle /\ DriverIdle

ColumnToIndex ==
  /\ pc = "column_call"
  /\ pc' = "column_ret"
  /\ index' = Some(_column_to_index(column))
  /\ UNCHANGED <<fs, config_raw, config_read, err_str, config, data_rows_in,
                 in_headers, valid_indexes, err_indexes, output_indexes,
                 out_fh, out_file, exc, column>>

NextLetters == ColumnToIndex

SpecLetters == InitLetters /\ [][NextLetters]_vars

\* Bijective base-26 numerals, written from their definition: the value of
\* a code of letters d_n ... d_1 d_0 is the sum of d_k * 26^k, A = 1 .. Z = 26.
RECURSIVE Pow26(_)
Pow26(k) == IF k = 0 THEN 1 ELSE 26 * Pow26(k - 1)

IsLetter(c) == \E d \in 1..26 : c = ascii_uppercase[d] \/ c = ascii_lowercase[d]
DigitOf(c) ==
  CHOOSE d \in 1..26 : c = ascii_uppercase[d] \/ c = ascii_lowercase[d]
OnlyLetters(s) == SelectSeq(s, IsLetter)

RECURSIVE SumDigits(_, _)
SumDigits(code, i) ==
  IF i > Len(code) THEN 0
  ELSE DigitOf(code[i]) * Pow26(Len(code) - i) + SumDigits(code, i + 1)

Bijective26(code) == SumDigits(code, 1)

\* C2: _column_to_index returns the bijective base-26 value of the letters
\* of the code (either case, A = 1 .. Z = 26) minus one, so that "A" -> 0,
\* "B" -> 1, "Z" -> 25, "AA" -> 26, "AB" -> 27; characters that are not
\* letters are skipped, so a code gives the index of its letters alone.
C2_LetterDecode ==
  pc = "column_ret" =>
    /\ index = Some(Bijective26(OnlyLetters(column)) - 1)
    /\ (column = <<"A">> => index = Some(0))
    /\ (column = <<"B">> => index = Some(1))
    /\ (column = <<"Z">> => index = Some(25))
    /\ (column = <<"A", "A">> => index = Some(26))
    /\ (column = <<"A", "B">> => index = Some(27))
    /\ (OnlyLetters(column) = <<"A", "B">> => index = Some(27))

\* a code in lower case with a non-letter inserted has been converted
C2_Witness ==
  pc = "column_ret" /\ column = <<"a", "1", "B">> /\ index = Some(27)

----------------------------------------------------------------------------
(* The resolver on its own: every column specification with lists of at    *)
(* most MaxList entries, against every header row of at most MaxHeaders    *)
(* names (or no header row), is resolved once.                              *)

MaxList == 2
MaxHeaders == 3

id == <<"i", "d">>
ID == <<"I", "D">>
name == <<"n", "a", "m", "e">>
missing == <<"m", "i", "s", "s", "i", "n", "g">>

ResolveIndexes == {0, 2}
ResolveLetterCodes == {<<"C">>, <<"a", "1">>}
WantedNames == {id, ID, missing}
HeaderNames == {id, name}

\* a key that is absent (None) or present with a list
OptList(S) == {None} \cup {Some(l) : l \in SeqUpTo(S, MaxList)}

MkParams(io, lo, ho) ==
  [k \in {kk \in {"column_indexes", "column_letters", "column_headers"} :
            \/ kk = "column_indexes" /\ io # None
            \/ kk = "column_letters" /\ lo # None
            \/ kk = "column_headers" /\ ho # None} |->
     IF k = "column_indexes" THEN io[1]
     ELSE IF k = "column_letters" THEN lo[1] ELSE ho[1]]

InitResolve ==
  /\ pc = "resolve_call"
  /\ \E io \in OptList(ResolveIndexes), lo \in OptList(ResolveLetterCodes),
        ho \in OptList(WantedNames) : config = MkParams(io, lo, ho)
  /\ in_headers \in {None} \cup {Some(h) : h \in SeqUpTo(HeaderNames, MaxHeaders)}
  /\ valid_indexes = FALSE /\ err_indexes = None /\ output_indexes = <<>>
  /\ config_read = FALSE /\ err_str = None
  /\ FilesIdle /\ DriverIdle /\ LettersIdle

CalculateOutputIndexes ==
  /\ pc = "resolve_call"
  /\ pc' = "resolve_ret"
  /\ LET r == _calculate_output_indexes(in_headers, config)
     IN  /\ valid_indexes' = r.success
         /\ err_indexes' = r.cof
         /\ output_indexes' = r.out_indexes
  /\ UNCHANGED <<fs, config_raw, config_read, err_str, config, data_rows_in,
                 in_headers, out_fh, out_file, exc, column, index>>

NextResolve == CalculateOutputIndexes

SpecResolve == InitResolve /\ [][NextResolve]_vars

Given(key) == key \in DOMAIN config /\ config[key] # <<>>

\* C1: precedence indexes > letters > header names.  With column_indexes
\* present and non-empty the result is success with exactly that list,
\* whatever the letters and the header names are; with column_indexes absent
\* or empty and column_letters non-empty the result is success with the
\* index of each letter code, in order, whatever the header names are.
C1_Precedence ==
  pc = "resolve_ret" =>
    /\ Given("column_indexes") =>
         /\ valid_indexes
         /\ output_indexes = config["column_indexes"]
    /\ (~Given("column_indexes") /\ Given("column_letters")) =>
         /\ valid_indexes
         /\ Len(output_indexes) = Len(config["column_letters"])
         /\ \A k \in 1..Len(output_indexes) :
              output_indexes[k] =
                Bijective26(OnlyLetters(config["column_letters"][k])) - 1

\* all three lists were supplied and the indexes came back
C1_Witness ==
  /\ pc = "resolve_ret"
  /\ Given("column_indexes") /\ Given("column_letters") /\ Given("column_headers")
  /\ config["column_indexes"] = <<2, 0>>
  /\ config["column_letters"] = <<<<"C">>>>
  /\ output_indexes = <<2, 0>>

OnlyHeadersGiven ==
  /\ ~Given("column_indexes") /\ ~Given("column_letters")
  /\ Given("column_headers") /\ in_headers # None

\* the requested names that occur in the header row, in request order
Found(wanted, row) == SelectSeq(wanted, LAMBDA h : h \in Range(row))

\* C3: with only column_headers populated and a header row, the result
\* lists, in request order, the position of the first exact occurrence of
\* each requested name that occurs in the header row and omits the others;
\* success is flagged exactly when no name was omitted; on failure the
\* partial list is still returned and the error names every omitted name.
C3_HeaderNames ==
  (pc = "resolve_ret" /\ OnlyHeadersGiven) =>
    LET wanted == config["column_headers"]
        row    == in_headers[1]
        found  == Found(wanted, row)
    IN  /\ Len(output_indexes) = Len(found)
        /\ \A k \in 1..Len(found) :
             /\ output_indexes[k] \in 0..(Len(row) - 1)
             /\ row[output_indexes[k] + 1] = found[k]
             /\ \A j \in 1..output_indexes[k] : row[j] # found[k]
        /\ valid_indexes <=> (Len(found) = Len(wanted))
        /\ valid_indexes => err_indexes = None
        /\ ~valid_indexes =>
             /\ err_indexes # None
             /\ \A k \in 1..Len(wanted) :
                  wanted[k] \notin Range(row) => Contains(err_indexes[1], wanted[k])

\* a repeated header and an unmatched name: the first position is returned
\* with the failure
C3_Witness ==
  /\ pc = "resolve_ret" /\ OnlyHeadersGiven
  /\ in_headers = Some(<<id, name, id>>)
  /\ config["column_headers"] = <<missing, id>>
  /\ output_indexes = <<0>>
  /\ ~valid_indexes
  /\ Contains(err_indexes[1], missing)

----------------------------------------------------------------------------
(* The script: __main__ reads and validates the configuration, then main   *)
(* loads the rows, resolves the columns and writes the projected rows.     *)
(* Input files hold at most MaxRows rows of MaxCols or MaxCols - 1 cells.  *)

MaxRows == 3
MaxCols == 3

RowChar == <<"h", "a", "d", "g", "j", "m">>
ColChar == <<"1", "2", "3", "4", "5", "6">>

\* the cell of row r and column c: "h1", "h2", ... in the first row
Cell(r, c) == <<RowChar[r], ColChar[c]>>
Row(r, n) == [c \in 1..n |-> Cell(r, c)]
DataSets ==
  UNION {{[r \in 1..n |-> Row(r, lens[r])] :
            lens \in [1..n -> {MaxCols - 1, MaxCols}]} : n \in 0..MaxRows}
StandardRows == [r \in 1..MaxRows |-> Row(r, MaxCols)]

RequiredKeys == {"input_path", "input_file_name", "input_file_extension",
                 "output_path", "output_file_name", "output_file_extension"}

csv == <<"c", "s", "v">>
xlsx == <<"x", "l", "s", "x">>
Extensions == {csv, <<"C", "S", "V">>, xlsx, <<"X", "L", "S", "X">>,
               <<"t", "x", "t">>}
Sheet1 == <<"Sheet1">>
SheetValues == {None, Some(Sheet1), Some(<<"Other">>)}

\* a data_files section holding the required keys in keys, and the
\* optional ones as given
DataFilesSection(keys, ext, sheet, enc) ==
  [k \in keys \cup (IF sheet # None THEN {"input_sheet_name"} ELSE {})
              \cup (IF enc THEN {"character_encoding"} ELSE {}) |->
     CASE k = "input_path" -> <<"in">>
       [] k = "input_file_name" -> <<"data">>
       [] k = "input_file_extension" -> ext
       [] k = "output_path" -> <<"out">>
       [] k = "output_file_name" -> <<"result">>
       [] k = "output_file_extension" -> csv
       [] k = "input_sheet_name" -> sheet[1]
       [] k = "character_encoding" -> <<"latin-1">>]

\* raw option values, one character per element, lines joined by "\n"
LastLetter == ascii_uppercase[MaxCols]
LastDigit == Digits[MaxCols]
RECURSIVE IdentityLines(_)
IdentityLines(n) ==
  IF n = 1 THEN <<Digits[1]>> ELSE IdentityLines(n - 1) \o <<"\n", Digits[n]>>

HeaderValues == {None, Some(<<>>),
                 Some(<<"h", ColChar[MaxCols], "\n", " ", "h", "1">>),
                 Some(<<"z", "z", "\n", "h", "1">>)}
LetterValues == {None, Some(<<>>), Some(<<LastLetter, "\n", "A">>), Some(<<"1">>)}
IndexValues == {None, Some(<<>>), Some(<<LastDigit, "\n", "0">>),
                Some(<<"-", "1">>), Some(<<"x">>), Some(IdentityLines(MaxCols))}

ColumnsSection(h, l, i) ==
  [k \in {kk \in {"column_headers", "column_letters", "column_indexes"} :
            \/ kk = "column_headers" /\ h # None
            \/ kk = "column_letters" /\ l # None
            \/ kk = "column_indexes" /\ i # None} |->
     IF k = "column_headers" THEN h[1]
     ELSE IF k = "column_letters" THEN l[1] ELSE i[1]]

MkRaw(df, dc) ==
  [sec \in {ss \in {"data_files", "data_columns"} :
              \/ ss = "data_files" /\ df # None
              \/ ss = "data_columns" /\ dc # None} |->
     IF sec = "data_files" THEN df[1] ELSE dc[1]]

Files(config_ok, in_dir, in_file, out_dir, rows) ==
  [config_file_ok |-> config_ok, input_dir_ok |-> in_dir,
   input_file_ok |-> in_file, output_dir_ok |-> out_dir,
   sheetnames |-> {Sheet1}, rows |-> rows]

\* configurations that exercise the validator: every subset of the
\* required keys, every combination of directory and file facts, a few
\* data_columns sections, over the standard input file
ValidatorFiles ==
  {None} \cup {Some(DataFilesSection(keys, ext, sheet, FALSE)) :
                 keys \in SUBSET RequiredKeys,
                 ext \in {csv, xlsx, <<"X", "L", "S", "X">>},
                 sheet \in {None, Some(Sheet1)}}
ValidatorColumns ==
  {None, Some(ColumnsSection(None, None, None)),
   Some(ColumnsSection(Some(<<>>), None, None)),
   Some(ColumnsSection(None, Some(<<LastLetter, "\n", "A">>), None)),
   Some(ColumnsSection(None, None, Some(<<"x">>))),
   Some(ColumnsSection(None, None, Some(<<LastDigit, "\n", "0">>)))}
ValidatorFacts ==
  {Files(FALSE, TRUE, TRUE, TRUE, StandardRows)}
  \cup {Files(TRUE, a, b, c, StandardRows) : a, b, c \in BOOLEAN}

\* configurations that exercise main: complete data_files sections over
\* accessible files, every data_columns section, every input file
RunFiles ==
  {Some(DataFilesSection(RequiredKeys, ext, sheet, FALSE)) :
     ext \in Extensions, sheet \in SheetValues}
  \cup {Some(DataFilesSection(RequiredKeys, csv, None, TRUE))}
RunColumns ==
  {None} \cup {Some(ColumnsSection(h, l, i)) :
                 h \in HeaderValues, l \in LetterValues, i \in IndexValues}

Init ==
  /\ pc = "start"
  /\ \/ \E df \in ValidatorFiles, dc \in ValidatorColumns :
          /\ config_raw = MkRaw(df, dc)
          /\ fs \in ValidatorFacts
     \/ \E df \in RunFiles, dc \in RunColumns, rows \in DataSets :
          /\ config_raw = MkRaw(df, dc)
          /\ fs = Files(TRUE, TRUE, TRUE, TRUE, rows)
  /\ ConfigIdle /\ ResolveIdle /\ DriverIdle /\ LettersIdle

\* __main__, line 431: config_read, err_str, config = _read_config(...)
ReadConfig ==
  /\ pc = "start"
  /\ LET r == _read_config(config_raw, fs)
     IN  IF r.raised # NoExc
           THEN /\ pc' = "crashed"
                /\ exc' = r.raised
                /\ UNCHANGED <<config_read, err_str, config>>
           ELSE /\ pc' = "config_returned"
                /\ config_read' = r.valid
                /\ err_str' = r.invalid_str
                /\ config' = r.config_map
                /\ UNCHANGED exc
  /\ UNCHANGED <<fs, config_raw, data_rows_in, in_headers, valid_indexes,
                 err_indexes, output_indexes, out_fh, out_file, column, index>>

\* __main__, lines 432-435: raise RuntimeError(err_str) or call main(config)
CheckConfig ==
  /\ pc = "config_returned"
  /\ IF ~config_read
       THEN /\ pc' = "failed"
            /\ exc' = Raise("RuntimeError", err_str[1], "__main__")
       ELSE /\ pc' = "main_load"
            /\ UNCHANGED exc
  /\ UNCHANGED <<fs, config_raw, config_read, err_str, config, data_rows_in,
                 in_headers, valid_indexes, err_indexes, output_indexes,
                 out_fh, out_file, column, index>>

\* what __main__ does with an exception out of main: RuntimeError is caught
\* (exit status 1), anything else is uncaught
Ended(e) == IF e.type = "RuntimeError" THEN "failed" ELSE "crashed"

\* main, lines 390-400
MainLoad ==
  /\ pc = "main_load"
  /\ LET r == LoadRows(config, fs)
     IN  /\ data_rows_in' = r.rows
         /\ IF r.raised # NoExc
              THEN pc' = Ended(r.raised) /\ exc' = r.raised
              ELSE pc' = "main_resolve" /\ UNCHANGED exc
  /\ UNCHANGED <<fs, config_raw, config_read, err_str, config, in_headers,
                 valid_indexes, err_indexes, output_indexes, out_fh, out_file,
                 column, index>>

\* main, lines 402-407 without the test of valid_indexes (mutant)
MainResolveUnchecked ==
  /\ pc = "main_resolve"
  /\ in_headers' = Some(data_rows_in[1])
  /\ LET r == _calculate_output_indexes(Some(data_rows_in[1]), config)
     IN  /\ valid_indexes' = r.success
         /\ err_indexes' = r.cof
         /\ output_indexes' = r.out_indexes
         /\ pc' = "main_open" /\ UNCHANGED exc
  /\ UNCHANGED <<fs, config_raw, config_read, err_str, config, data_rows_in,
                 out_fh, out_file, column, index>>

\* main, lines 402-407
MainResolve ==
  /\ pc = "main_resolve"
  /\ in_headers' = Some(data_rows_in[1])
  /\ LET r == _calculate_output_indexes(Some(data_rows_in[1]), config)
     IN  /\ valid_indexes' = r.success
         /\ err_indexes' = r.cof
         /\ output_indexes' = r.out_indexes
         /\ IF ~r.success
              THEN /\ pc' = "failed"
                   /\ exc' = Raise("RuntimeError",
                                   <<"failed to translate data_columns to data ",
                                     "index numbers: ">> \o r.cof[1],
                                   "main")
              ELSE pc' = "main_open" /\ UNCHANGED exc
  /\ UNCHANGED <<fs, config_raw, config_read, err_str, config, data_rows_in,
                 out_fh, out_file, column, index>>

WriteError ==
  Raise("RuntimeError",
        <<"failed to write lines to OUT_PATH (">> \o config["output_file_path"]
        \o <<": ", "IOError">>, "main")

\* main, lines 410-413: the output file is opened for writing and truncated
MainOpen ==
  /\ pc = "main_open"
  /\ pc' = "main_write"
  /\ out_fh' = "open"
  /\ out_file' = <<>>
  /\ UNCHANGED <<fs, config_raw, config_read, err_str, config, data_rows_in,
                 in_headers, valid_indexes, err_indexes, output_indexes, exc,
                 column, index>>

\* main, lines 410 and 422-424: open() raises IOError
MainOpenFails ==
  /\ pc = "main_open"
  /\ pc' = "failed"
  /\ exc' = WriteError
  /\ UNCHANGED <<fs, config_raw, config_read, err_str, config, data_rows_in,
                 in_headers, valid_indexes, err_indexes, output_indexes,
                 out_fh, out_file, column, index>>

\* main, lines 417-421: one iteration of the loop over data_rows_in; an
\* IndexError of row[index] leaves the with block, which closes the file
MainWriteRow ==
  /\ pc = "main_write"
  /\ Len(out_file) < Len(data_rows_in)
  /\ LET data_row_out ==
           ProjectRow(data_rows_in[Len(out_file) + 1], output_indexes)
     IN  IF data_row_out = None
           THEN /\ pc' = "crashed"
                /\ exc' = Raise("IndexError", <<"list index out of range">>,
                                "main")
                /\ out_fh' = "closed"
                /\ UNCHANGED out_file
           ELSE /\ out_file' = Append(out_file, data_row_out[1])
                /\ UNCHANGED <<pc, exc, out_fh>>
  /\ UNCHANGED <<fs, config_raw, config_read, err_str, config, data_rows_in,
                 in_headers, valid_indexes, err_indexes, output_indexes,
                 column, index>>

\* main, lines 421-424: writerow, or the close that ends the with block,
\* raises IOError
MainWriteFails ==
  /\ pc = "main_write"
  /\ Len(out_file) < Len(data_rows_in) =>
       ProjectRow(data_rows_in[Len(out_file) + 1], output_indexes) # None
  /\ pc' = "failed"
  /\ exc' = WriteError
  /\ out_fh' = "closed"
  /\ UNCHANGED <<fs, config_raw, config_read, err_str, config, data_rows_in,
                 in_headers, valid_indexes, err_indexes, output_indexes,
                 out_file, column, index>>

\* main: the loop is over, the with block closes the file, main returns
MainClose ==
  /\ pc = "main_write"
  /\ Len(out_file) = Len(data_rows_in)
  /\ pc' = "done"
  /\ out_fh' = "closed"
  /\ UNCHANGED <<fs, config_raw, config_read, err_str, config, data_rows_in,
                 in_headers, valid_indexes, err_indexes, output_indexes,
                 out_file, exc, column, index>>

Next ==
  \/ ReadConfig
  \/ CheckConfig
  \/ MainLoad
  \/ MainResolve
  \/ MainOpen
  \/ MainOpenFails
  \/ MainWriteRow
  \/ MainWriteFails
  \/ MainClose

Spec == Init /\ [][Next]_vars

----------------------------------------------------------------------------
(* Properties of the script *)

Final == {"done", "failed", "crashed"}

\* row[i] as Python reads it, for an index within the row
Elem(row, i) == IF i >= 0 THEN row[i + 1] ELSE row[Len(row) + i + 1]

\* C4: when the run succeeds the output has as many rows as the loaded
\* input, in the same order, and output row r is the list of input_row_r[i]
\* for i over the resolved indexes, in their order (header row included);
\* the identity index list over rows of that width reproduces the input.
C4_Projection ==
  pc = "done" =>
    /\ data_rows_in = fs.rows
    /\ Len(out_file) = Len(data_rows_in)
    /\ \A r \in 1..Len(out_file) :
         /\ Len(out_file[r]) = Len(output_indexes)
         /\ \A k \in 1..Len(output_indexes) :
              /\ output_indexes[k] \in
                   (0 - Len(data_rows_in[r]))..(Len(data_rows_in[r]) - 1)
              /\ out_file[r][k] = Elem(data_rows_in[r], output_indexes[k])
    /\ ((\A k \in 1..Len(output_indexes) : output_indexes[k] = k - 1)
        /\ (\A r \in 1..Len(data_rows_in) :
              Len(data_rows_in[r]) = Len(output_indexes)))
         => out_file = data_rows_in

\* letters C, A over three rows of three cells
C4_Witness ==
  /\ pc = "done"
  /\ DOMAIN config_raw["data_columns"] = {"column_letters"}
  /\ config["column_letters"] = <<<<"C">>, <<"A">>>>
  /\ fs.rows = << <<Cell(1, 1), Cell(1, 2), Cell(1, 3)>>,
                  <<Cell(2, 1), Cell(2, 2), Cell(2, 3)>>,
                  <<Cell(3, 1), Cell(3, 2), Cell(3, 3)>> >>
  /\ out_file = << <<Cell(1, 3), Cell(1, 1)>>,
                   <<Cell(2, 3), Cell(2, 1)>>,
                   <<Cell(3, 3), Cell(3, 1)>> >>

\* an index that row cannot hold
TooShortFor(row, i) == i >= Len(row) \/ i < 0 - Len(row)
RowTooShort(row) ==
  \E k \in 1..Len(output_indexes) : TooShortFor(row, output_indexes[k])

\* C5: a loaded row shorter than a resolved index makes the run fail with
\* the driver's data error (RuntimeError) and a message that identifies the
\* offending row; and a run that ends in success has written every row.
C5_OutOfBoundsIsDataError ==
  /\ (/\ pc \in Final /\ out_fh = "closed"
      /\ Len(out_file) < Len(data_rows_in)
      /\ RowTooShort(data_rows_in[Len(out_file) + 1]))
       => /\ pc = "failed"
          /\ exc.type = "RuntimeError"
          /\ Contains(exc.msg, py_repr_list(data_rows_in[Len(out_file) + 1]))
  /\ pc = "done" => Len(out_file) = Len(data_rows_in)

\* the rows of the input can be read: csv, or xlsx with a sheet that exists
RowsReadable ==
  LET type == str_lower(config["input_data_type"])
  IN  \/ type = csv
      \/ /\ type = xlsx
         /\ "input_sheet_name" \in DOMAIN config
         /\ config["input_sheet_name"] \in fs.sheetnames

\* C6: Load, then Resolve, then Project and Write.  The output file is
\* opened only after Load returned at least one row and Resolve reported
\* success; a run that loads zero rows fails with the empty-data error
\* without calling the resolver or touching the output file; a run whose
\* resolution fails, partial header matches included, fails with the
\* resolution error without touching the output file.
C6_StepOrder ==
  /\ (out_fh # "unopened" \/ pc \in {"main_open", "main_write", "done"}) =>
       /\ Len(data_rows_in) >= 1
       /\ in_headers = Some(data_rows_in[1])
       /\ valid_indexes
  /\ (pc \in Final /\ config_read /\ RowsReadable /\ fs.rows = <<>>) =>
       /\ pc = "failed"
       /\ exc.type = "RuntimeError"
       /\ Contains(exc.msg, <<"Failed to read any data rows from input ">>)
       /\ in_headers = None
       /\ out_fh = "unopened" /\ out_file = <<>>
  /\ (in_headers # None /\ ~valid_indexes) =>
       /\ pc = "failed"
       /\ exc.type = "RuntimeError"
       /\ Contains(exc.msg, err_indexes[1])
       /\ out_fh = "unopened" /\ out_file = <<>>

\* a partial header match ended the run before the output was opened
C6_Witness ==
  /\ pc = "failed"
  /\ in_headers # None /\ ~valid_indexes
  /\ output_indexes = <<0>>
  /\ out_fh = "unopened"

\* the validator raised instead of returning
ValidatorAborted == exc.where = "_validate_config"

\* C7: the validator accumulates problems and always returns its triple:
\* every required key absent from a present data_files section is named in
\* the one error string, the problems of data_columns are in the same
\* string, and valid is true exactly when nothing was accumulated.
C7_Accumulates ==
  (pc # "start" /\ fs.config_file_ok) =>
    /\ ~ValidatorAborted
    /\ \A k \in RequiredKeys :
         (has_section(config_raw, "data_files")
          /\ ~has_option(config_raw, "data_files", k))
           => (err_str # None /\ Contains(err_str[1], <<k>>))
    /\ ~has_section(config_raw, "data_columns")
         => (err_str # None /\ Contains(err_str[1], <<"data_columns">>))
    /\ (has_section(config_raw, "data_columns")
        /\ DOMAIN config_raw["data_columns"] = {})
         => (err_str # None
             /\ Contains(err_str[1],
                         <<"one of column headers, letters, or indexes must">>))
    /\ config_read <=> (err_str = None)

\* C8: no configuration whose input extension is xlsx in any casing and
\* that has no input_sheet_name is accepted by the validator, so main never
\* reaches _read_xlsx_data without a sheet name.
C8_SheetRequired ==
  config_read =>
    (str_lower(config["input_data_type"]) = xlsx
       => "input_sheet_name" \in DOMAIN config)

\* C9: every configuration the validator accepts carries at least one
\* non-empty column list, so the resolver never answers "no input indexes
\* provided" for an accepted configuration.
C9_ColumnsPopulated ==
  config_read =>
    /\ \E key \in {"column_indexes", "column_letters", "column_headers"} :
         key \in DOMAIN config /\ Len(config[key]) > 0
    /\ err_indexes # Some(<<"no input indexes provided">>)

\* C10: every index the resolver returns on success, hence every index main
\* uses to read a cell, is non-negative.
C10_NonNegative ==
  (in_headers # None /\ valid_indexes) =>
    \A k \in 1..Len(output_indexes) : output_indexes[k] >= 0

====
